---- MODULE Spec2Model ----
(***************************************************************************)
(* A model of src/src/measure/plumed.cu: the Tersoff-mini potential        *)
(* (constructor, the two force kernels and their launch order) and the     *)
(* PLUMED coupling (parse, preprocess/init, process, postprocess).         *)
(*                                                                         *)
(* Four specifications share the variables, each leaving the others'       *)
(* variables alone:                                                        *)
(*   SpecCtor    the constructor's read/validate loop and the type index   *)
(*   SpecShape   the constructor's allocation against the kernels' index   *)
(*   Spec        Tersoff_mini::compute: Pass 1, Pass 2, the reducer        *)
(*   SpecPlumed  one PLUMED object over its run cycles                     *)
(***************************************************************************)
EXTENDS Integers, Sequences, FiniteSets, TLC

VARIABLES
    \* ---- Tersoff_mini::Tersoff_mini (lines 293-342)
    num_types,   \* the member num_types
    ctor,        \* "reading" | "constructed" | "error"
    entry,       \* the loop variable i: the number of lines accepted so far
    para,        \* the table: a function on the indices written so far
    rc,          \* the member rc
    lastLine,    \* the line the last fscanf returned
    look,        \* the last kernel lookup <<type_i, type_j, index>>, or <<>>
    \* ---- Tersoff_mini::compute and the two kernels (lines 420-642)
    N1, N2,              \* the atom range of the potential
    shift,               \* atom->shift[potential_number]
    g_type,              \* atom -> type tag (shift included)
    g_x,                 \* atom -> position (a chain along x; y = z = 0)
    g_neighbor_number,   \* atom -> neighbor count
    g_neighbor_list,     \* flat index n1 + N * i1 -> atom
    kpara,               \* the parameter table the kernels are passed
    g_b, g_bp,           \* flat index i1 * N + n1 -> bond order, derivative
    g_f12,               \* flat index -> directed partial force (x, y, z)
    g_potential,         \* atom -> the energies accumulated so far
    call,                \* the number of compute calls started
    phase,               \* "idle" | "run"
    pc1, pc2,            \* atom -> progress of its Pass 1 / Pass 2 thread
    pot_energy,          \* atom -> the local pot_energy of its Pass 2 thread
    stamp_b, stamp_f,    \* flat index -> the call that last wrote the slot
    zeta_slots,          \* flat index -> the slots i2 Pass 1 summed
    reads,               \* <<atom, slot>>: the reads of g_b/g_bp in this call
    stale,               \* reads of a slot not written in the same call
    \* ---- the shape of the caches (lines 335-341 against the kernels' index)
    sh_N,        \* atom->N
    sh_MN,       \* atom->neighbor.MN, the stride of the neighbor table
    sh_NN,       \* atom -> neighbor count, each at most sh_MN
    sh_len,      \* the length of each array the constructor allocated
    sh_access,   \* the last cache access <<n1, i1, index>>, or <<>>
    \* ---- PLUMED (lines 79-257) and the Atom and Box it is handed
    p_ctor,            \* "ok" | "error": how PLUMED::PLUMED ended
    interval,          \* the member interval
    restart,           \* the member restart
    use_plumed,        \* the member use_plumed
    step,              \* the member step
    n_atom,            \* the member n_atom
    plumed_main,       \* the member plumed_main: a handle, 0 before any
    handles,           \* the plugin objects plumed_create has returned
    number_of_atoms,   \* atom.number_of_atoms
    force_per_atom,    \* atom.force_per_atom (x block, y block, z block)
    position_per_atom, \* atom.position_per_atom
    virial_per_atom,   \* atom.virial_per_atom, six blocks of n_atom
    cpu_f_vector, cpu_q_vector, cpu_b_vector, cpu_v_vector, cpu_v_factor,
    cpu_m_vector,      \* the host vectors
    run,               \* "idle" | "running": where the driver is in a run
    cycles,            \* the number of preprocess calls so far
    nproc,             \* the number of process calls so far
    last,              \* the last process call <<step_input, coupled>>
    misuse             \* plugin calls on a handle that is not live

ctorVars == <<num_types, ctor, entry, para, rc, lastLine, look>>

inputVars == <<N1, N2, shift, g_type, g_x, g_neighbor_number, g_neighbor_list, kpara>>

cacheVars == <<g_b, g_bp, g_f12, g_potential>>

kernelVars ==
    <<inputVars, cacheVars, call, phase, pc1, pc2, pot_energy, stamp_b,
      stamp_f, zeta_slots, reads, stale>>

shapeVars == <<sh_N, sh_MN, sh_NN, sh_len, sh_access>>

atomVars == <<number_of_atoms, force_per_atom, position_per_atom, virial_per_atom>>

hostVars ==
    <<cpu_f_vector, cpu_q_vector, cpu_b_vector, cpu_v_vector, cpu_v_factor,
      cpu_m_vector>>

plumedVars ==
    <<p_ctor, interval, restart, use_plumed, step, n_atom, plumed_main,
      handles, atomVars, hostVars, run, cycles, nproc, last, misuse>>

vars == <<ctorVars, kernelVars, shapeVars, plumedVars>>

notCtor == <<kernelVars, shapeVars, plumedVars>>

notKernel == <<ctorVars, shapeVars, plumedVars>>

notShape == <<ctorVars, kernelVars, plumedVars>>

notPlumed == <<ctorVars, kernelVars, shapeVars>>

----------------------------------------------------------------------------
(* double: a number (here an integer multiple of the unit) or NaN.  Every  *)
(* ordered comparison with a NaN operand is false, as in IEEE 754.         *)

Num(x) == [nan |-> FALSE, v |-> x]

NaN == [nan |-> TRUE, v |-> 0]

Lt(x, y) == ~x.nan /\ ~y.nan /\ x.v < y.v

Le(x, y) == ~x.nan /\ ~y.nan /\ x.v <= y.v

Gt(x, y) == Lt(y, x)

Ge(x, y) == Le(y, x)

----------------------------------------------------------------------------
(* The parameter file.  A line is what one fscanf call returns: the number *)
(* of fields converted and the nine doubles.                               *)

\* the code supports one or two atom types ("1 or 3 entries")
MaxNumTypes == 2

n_entries_per_type(nt) == nt

\* int n_entries = 2 * num_types - 1; // 1 or 3 entries
n_entries(nt) == 2 * nt - 1

BaseLine ==
    [count |-> 9, d0 |-> Num(1), a |-> Num(1), r0 |-> Num(1), s |-> Num(2),
     beta |-> Num(1), n |-> Num(1), h |-> Num(0), r1 |-> Num(1), r2 |-> Num(2)]

Doubles(lo, hi) == {Num(x) : x \in lo..hi} \cup {NaN}

\* Every line that differs from BaseLine in one field, in the pair of
\* cutoffs, or in the number of fields fscanf converted (-1 is EOF).
Lines ==
    {[BaseLine EXCEPT !.d0 = x] : x \in Doubles(-1, 1)}
    \cup {[BaseLine EXCEPT !.a = x] : x \in Doubles(-1, 1)}
    \cup {[BaseLine EXCEPT !.r0 = x] : x \in Doubles(-1, 1)}
    \cup {[BaseLine EXCEPT !.s = x] : x \in Doubles(-1, 2)}
    \cup {[BaseLine EXCEPT !.beta = x] : x \in Doubles(-1, 1)}
    \cup {[BaseLine EXCEPT !.n = x] : x \in Doubles(-1, 1)}
    \cup {[BaseLine EXCEPT !.h = x] : x \in Doubles(-2, 2)}
    \cup {[BaseLine EXCEPT !.r1 = x, !.r2 = y] :
            x \in Doubles(-1, 2), y \in Doubles(-1, 3)}
    \cup {[BaseLine EXCEPT !.count = c] : c \in {-1, 0, 8}}

\* The chain of "if (...) print_error(err);" of the loop body: TRUE when
\* one of them fires.
RejectsNoCutoffOrder(l) ==
    \/ l.count # 9
    \/ Le(l.d0, Num(0))
    \/ Le(l.a, Num(0))
    \/ Le(l.r0, Num(0))
    \/ Lt(l.beta, Num(0))
    \/ Lt(l.n, Num(0))
    \/ Lt(l.h, Num(-1)) \/ Gt(l.h, Num(1))
    \/ Lt(l.r1, Num(0))
    \/ Le(l.r2, Num(0))

Rejects(l) ==
    \/ l.count # 9
    \/ Le(l.d0, Num(0))
    \/ Le(l.a, Num(0))
    \/ Le(l.r0, Num(0))
    \/ Lt(l.beta, Num(0))
    \/ Lt(l.n, Num(0))
    \/ Lt(l.h, Num(-1)) \/ Gt(l.h, Num(1))
    \/ Lt(l.r1, Num(0))
    \/ Le(l.r2, Num(0))
    \/ Le(l.r2, l.r1)

\* print_error (error.cuh) prints the message and ends the process: the
\* constructor never returns and nothing of the object is used afterwards.
print_error == "error"

\* The assignments para.*[i] = ... of the loop body.  The coefficients that
\* go through exp and sqrt are kept as the operands they are built from.
Entry(l) ==
    [a |-> <<l.d0, l.s, l.a, l.r0>>,
     b |-> <<l.s, l.d0, l.a, l.r0>>,
     lambda |-> <<l.s, l.a>>,
     mu |-> <<l.s, l.a>>,
     beta |-> l.beta,
     n |-> l.n,
     h |-> l.h,
     r1 |-> l.r1,
     r2 |-> l.r2,
     pi_factor |-> <<l.r2, l.r1>>,
     minus_half_over_n |-> l.n]

\* rc = r2 > rc ? r2 : rc
MaxRc(r2, old) == IF Gt(r2, old) THEN r2 ELSE old

\* type12 = type1 + g_type[n2] - shift, with type1 = g_type[n1] - shift
TypeIndex(ti, tj, nt) == ti + tj


CtorInit ==
    /\ num_types \in 1..MaxNumTypes
    /\ ctor = "reading"
    /\ entry = 0
    /\ para = <<>>
    /\ rc = Num(0)
    /\ lastLine = BaseLine
    /\ look = <<>>

\* One iteration of the for loop: fscanf, the checks, the assignments; the
\* last iteration runs on into the allocations and the constructor returns.
ReadLine ==
    /\ ctor = "reading"
    /\ entry < n_entries(num_types)
    /\ \E l \in Lines :
        /\ lastLine' = l
        /\ IF Rejects(l)
           THEN /\ ctor' = print_error
                /\ UNCHANGED <<entry, para, rc>>
           ELSE /\ para' = (entry :> Entry(l)) @@ para
                /\ rc' = MaxRc(l.r2, rc)
                /\ entry' = entry + 1
                /\ ctor' = IF entry + 1 < n_entries(num_types)
                           THEN "reading" ELSE "constructed"
    /\ UNCHANGED <<num_types, look>>
    /\ UNCHANGED notCtor

\* A kernel's table lookup for a pair of types of the constructed potential.
Lookup ==
    /\ ctor = "constructed"
    /\ \E ti \in 0..(num_types - 1), tj \in 0..(num_types - 1) :
        look' = <<ti, tj, TypeIndex(ti, tj, num_types)>>
    /\ UNCHANGED <<num_types, ctor, entry, para, rc, lastLine>>
    /\ UNCHANGED notCtor

CtorParked ==
    /\ num_types = 1
    /\ ctor = "constructed"
    /\ entry = 0
    /\ para = <<>>
    /\ rc = Num(0)
    /\ lastLine = BaseLine
    /\ look = <<>>

----------------------------------------------------------------------------
(* Tersoff_mini::compute.  The atoms sit on a chain along x (g_x[n] = n,   *)
(* y = z = 0) in an open box, so dev_apply_mic leaves every displacement   *)
(* as it is and every cosine is +1 or -1.  Lengths are integers; fc and    *)
(* zeta are counted in quarters, which is exact for the cutoffs used.      *)

NumAtoms == 3

MaxNeighbors == 2

MaxCalls == 2

\* (atom->neighbor.MN < 20) ? atom->neighbor.MN : 20
NeighborCap == 20

Atoms == 0..(NumAtoms - 1)

SlotIndexAtomMajor(i1, N, n1) == n1 * MaxNeighbors + i1

\* i1 * number_of_particles + n1 (written n1 + number_of_particles * i1 too)
SlotIndex(i1, N, n1) == i1 * N + n1

\* memory1 / sizeof(double): the length of each of the five arrays
AllocLen(N, MN) == N * (IF MN < NeighborCap THEN MN ELSE NeighborCap)

Slots == 0..(AllocLen(NumAtoms, MaxNeighbors) - 1)

Range == {n \in Atoms : n >= N1 /\ n < N2}

\* The three parameter lines the kernel tables are built from: all of them
\* lines the constructor accepts.
Menu ==
    <<[BaseLine EXCEPT !.h = Num(-1), !.r1 = Num(1), !.r2 = Num(3)],
      [BaseLine EXCEPT !.h = Num(0), !.r1 = Num(2), !.r2 = Num(3)],
      [BaseLine EXCEPT !.h = Num(1), !.r1 = Num(1), !.r2 = Num(2)]>>

Table(k, nt) == [i \in 0..(n_entries(nt) - 1) |-> Entry(Menu[((i + k) % 3) + 1])]

\* The neighbor lists: sequences of other atoms, at most MaxNeighbors long
\* (the same atom may fill several slots: its periodic images).
NeighborLists(n) ==
    UNION {[1..len -> Atoms \ {n}] : len \in 0..MaxNeighbors}

ChainList(n) == SelectSeq(<<n - 1, n + 1>>, LAMBDA m : m \in Atoms)

FlatList(lists) ==
    [idx \in 0..(NumAtoms * MaxNeighbors - 1) |->
        LET n == idx % NumAtoms
            i == idx \div NumAtoms
        IN  IF i < Len(lists[n]) THEN lists[n][i + 1] ELSE 0]

Abs(x) == IF x < 0 THEN -x ELSE x

\* find_fc, in quarters: 0.5 * cos(pi_factor * (d12 - r1)) + 0.5 at the
\* fractions 0, 1/3, 1/2, 2/3 of the taper is 1, 3/4, 1/2, 1/4
find_fc(r1, r2, d12) ==
    IF d12 < r1 THEN 4
    ELSE IF d12 < r2
         THEN LET t == d12 - r1
                  w == r2 - r1
              IN  CASE t = 0 -> 4
                    [] 3 * t = w -> 3
                    [] 2 * t = w -> 2
                    [] 3 * t = 2 * w -> 1
         ELSE 0

\* find_g
find_g(h, cos) == (cos - h) * (cos - h)

\* find_force_step1: a slot i2 of the inner loop is summed unless
\* "if (n3 == n2) { continue; } // ensure that n3 != n2"
Third1(n3, n2, i2, i1) == ~(n3 = n2)

Third2BySlot(n3, n2, i2, i1) == i2 # i1

\* find_force_step2: "if (n3 == n2) { continue; }"
Third2(n3, n2, i2, i1) == ~(n3 = n2)

\* the slots i2 the inner loop of find_force_step1 does not skip, in order
ThirdSlots1(n1, i1) ==
    LET n2 == g_neighbor_list[n1 + NumAtoms * i1]
        all == [k \in 1..g_neighbor_number[n1] |-> k - 1]
    IN  SelectSeq(all, LAMBDA i2 :
            Third1(g_neighbor_list[n1 + NumAtoms * i2], n2, i2, i1))

\* the slots i2 the inner loop of find_force_step2 does not skip, in order
ThirdSlots2(n1, i1) ==
    LET n2 == g_neighbor_list[SlotIndex(i1, NumAtoms, n1)]
        all == [k \in 1..g_neighbor_number[n1] |-> k - 1]
    IN  SelectSeq(all, LAMBDA i2 :
            Third2(g_neighbor_list[n1 + NumAtoms * i2], n2, i2, i1))

Type1(n1) == g_type[n1] - shift

\* one term fc13 * g123 of the screening sum
ZetaTerm(n1, i1, i2) ==
    LET n2 == g_neighbor_list[n1 + NumAtoms * i1]
        n3 == g_neighbor_list[n1 + NumAtoms * i2]
        type12 == Type1(n1) + g_type[n2] - shift
        type13 == Type1(n1) + g_type[n3] - shift
        x12 == g_x[n2] - g_x[n1]
        x13 == g_x[n3] - g_x[n1]
        d12 == Abs(x12)
        d13 == Abs(x13)
        cos123 == (x12 * x13) \div (d12 * d13)
    IN  find_fc(kpara[type13].r1.v, kpara[type13].r2.v, d13)
            * find_g(kpara[type12].h.v, cos123)

RECURSIVE ZetaSum(_, _, _)
ZetaSum(n1, i1, slots) ==
    IF slots = <<>> THEN 0
    ELSE ZetaTerm(n1, i1, Head(slots)) + ZetaSum(n1, i1, Tail(slots))

NeverBelow(zeta) == FALSE

\* if (zeta < 1.0e-16): zeta is a count of quarters, and 1e-16 < 1/4
ZetaBelowEps(zeta) == zeta < 1

\* the values a cache slot holds
Unset == <<"unset", 0, 0>>

Lit(x) == <<"lit", x, 0>>

\* b12 = pow(1.0 + bzn, minus_half_over_n), bzn = pow(beta * zeta, n)
B12(zeta, type12) == <<"b12", zeta, type12>>

\* - b12 * bzn * 0.5 / ((1.0 + bzn) * zeta)
Bp12(zeta, type12) == <<"bp12", zeta, type12>>

KernelInit ==
    /\ N1 \in 0..1
    /\ N2 = NumAtoms
    /\ \E f \in {n \in Atoms : n >= N1}, nt \in 1..MaxNumTypes, k \in 0..2 :
        \E fl \in NeighborLists(f) :
            LET lists == [n \in Atoms |-> IF n = f THEN fl ELSE ChainList(n)]
            IN  /\ g_neighbor_number = [n \in Atoms |-> Len(lists[n])]
                /\ g_neighbor_list = FlatList(lists)
                /\ kpara = Table(k, nt)
                /\ shift = 1
                /\ g_type = [n \in Atoms |-> shift + (n % nt)]
    /\ g_x = [n \in Atoms |-> n]
    /\ g_b = [idx \in Slots |-> Unset]
    /\ g_bp = [idx \in Slots |-> Unset]
    /\ g_f12 = [idx \in Slots |-> Unset]
    /\ g_potential = [n \in Atoms |-> <<>>]
    /\ call = 0
    /\ phase = "idle"
    /\ pc1 = [n \in Atoms |-> 0]
    /\ pc2 = [n \in Atoms |-> 0]
    /\ pot_energy = [n \in Atoms |-> <<>>]
    /\ stamp_b = [idx \in Slots |-> 0]
    /\ stamp_f = [idx \in Slots |-> 0]
    /\ zeta_slots = [idx \in Slots |-> <<>>]
    /\ reads = {}
    /\ stale = {}

\* compute() is entered: the three launches are queued on the default stream
Compute ==
    /\ phase = "idle"
    /\ call < MaxCalls
    /\ call' = call + 1
    /\ phase' = "run"
    /\ pc1' = [n \in Atoms |-> 0]
    /\ pc2' = [n \in Atoms |-> 0]
    /\ pot_energy' = [n \in Atoms |-> <<>>]
    /\ reads' = {}
    /\ UNCHANGED <<inputVars, cacheVars, stamp_b, stamp_f, zeta_slots, stale>>
    /\ UNCHANGED notKernel

\* One iteration of the i1 loop of thread n1 of find_force_step1.
Step1(n1) ==
    /\ phase = "run"
    /\ n1 \in Range
    /\ pc1[n1] < g_neighbor_number[n1]
    /\ LET i1 == pc1[n1]
           n2 == g_neighbor_list[n1 + NumAtoms * i1]
           type12 == Type1(n1) + g_type[n2] - shift
           third == ThirdSlots1(n1, i1)
           zeta == ZetaSum(n1, i1, third)
           idx == SlotIndex(i1, NumAtoms, n1)
       IN  /\ IF ZetaBelowEps(zeta)
              THEN /\ g_b' = [g_b EXCEPT ![idx] = Lit(1)]
                   /\ g_bp' = [g_bp EXCEPT ![idx] = Lit(0)]
              ELSE /\ g_b' = [g_b EXCEPT ![idx] = B12(zeta, type12)]
                   /\ g_bp' = [g_bp EXCEPT ![idx] = Bp12(zeta, type12)]
           /\ stamp_b' = [stamp_b EXCEPT ![idx] = call]
           /\ zeta_slots' = [zeta_slots EXCEPT ![idx] = third]
           /\ pc1' = [pc1 EXCEPT ![n1] = i1 + 1]
    /\ UNCHANGED <<inputVars, g_f12, g_potential, call, phase, pc2,
                   pot_energy, stamp_f, reads, stale>>
    /\ UNCHANGED notKernel

Pass1Done == \A n \in Range : pc1[n] = g_neighbor_number[n]

Pass2Done == \A n \in Range : pc2[n] = g_neighbor_number[n] + 1

Unordered == TRUE

\* find_force_step2 is launched after find_force_step1 on the same stream:
\* its threads start when every thread of find_force_step1 has ended
Step2MayStart == Pass1Done

\* find_properties_many_body is called after the launch of find_force_step2
ReducerMayStart == Pass2Done

\* One iteration of the i1 loop of thread n1 of find_force_step2.
Step2(n1) ==
    /\ phase = "run"
    /\ Step2MayStart
    /\ n1 \in Range
    /\ pc2[n1] < g_neighbor_number[n1]
    /\ LET i1 == pc2[n1]
           index == SlotIndex(i1, NumAtoms, n1)
           n2 == g_neighbor_list[index]
           type12 == Type1(n1) + g_type[n2] - shift
           third == ThirdSlots2(n1, i1)
           b12 == g_b[index]
           bp12 == g_bp[index]
           three == [k \in 1..Len(third) |->
                       LET index_2 == n1 + NumAtoms * third[k]
                       IN  <<third[k], bp12, g_bp[index_2]>>]
           rd == {index} \cup {n1 + NumAtoms * third[k] : k \in 1..Len(third)}
       IN  /\ g_f12' = [g_f12 EXCEPT ![index] = <<"f12", <<n2, type12, b12>>, three>>]
           /\ pot_energy' =
                [pot_energy EXCEPT ![n1] = Append(@, <<n2, type12, b12>>)]
           /\ stamp_f' = [stamp_f EXCEPT ![index] = call]
           /\ reads' = reads \cup {<<n1, q>> : q \in rd}
           /\ stale' = stale \cup {<<"step2", r>> : r \in {q \in rd : stamp_b[q] # call}}
           /\ pc2' = [pc2 EXCEPT ![n1] = i1 + 1]
    /\ UNCHANGED <<inputVars, g_b, g_bp, g_potential, call, phase, pc1,
                   stamp_b, zeta_slots>>
    /\ UNCHANGED notKernel

\* g_potential[n1] += pot_energy, after the loop of thread n1
Step2Save(n1) ==
    /\ phase = "run"
    /\ Step2MayStart
    /\ n1 \in Range
    /\ pc2[n1] = g_neighbor_number[n1]
    /\ g_potential' = [g_potential EXCEPT ![n1] = Append(@, pot_energy[n1])]
    /\ pc2' = [pc2 EXCEPT ![n1] = pc2[n1] + 1]
    /\ UNCHANGED <<inputVars, g_b, g_bp, g_f12, call, phase, pc1, pot_energy,
                   stamp_b, stamp_f, zeta_slots, reads, stale>>
    /\ UNCHANGED notKernel

RangeSlots ==
    UNION {{SlotIndex(i1, NumAtoms, n) : i1 \in 0..(g_neighbor_number[n] - 1)} :
            n \in Range}

\* find_properties_many_body reads the partial forces of the range and
\* compute() returns.
Reduce ==
    /\ phase = "run"
    /\ ReducerMayStart
    /\ stale' = stale \cup {<<"reducer", r>> : r \in {q \in RangeSlots : stamp_f[q] # call}}
    /\ phase' = "idle"
    /\ UNCHANGED <<inputVars, cacheVars, call, pc1, pc2, pot_energy,
                   stamp_b, stamp_f, zeta_slots, reads>>
    /\ UNCHANGED notKernel

KernelParked ==
    /\ N1 = 0
    /\ N2 = 0
    /\ shift = 0
    /\ g_type = <<>>
    /\ g_x = <<>>
    /\ g_neighbor_number = <<>>
    /\ g_neighbor_list = <<>>
    /\ kpara = <<>>
    /\ g_b = <<>>
    /\ g_bp = <<>>
    /\ g_f12 = <<>>
    /\ g_potential = <<>>
    /\ call = 0
    /\ phase = "idle"
    /\ pc1 = <<>>
    /\ pc2 = <<>>
    /\ pot_energy = <<>>
    /\ stamp_b = <<>>
    /\ stamp_f = <<>>
    /\ zeta_slots = <<>>
    /\ reads = {}
    /\ stale = {}

----------------------------------------------------------------------------
(* The shape of the caches: the constructor allocates five arrays of       *)
(* AllocLen(N, MN) doubles; the kernels index them at i1 * N + n1 for      *)
(* every slot i1 below the neighbor count of n1.                           *)

MaxShapeAtoms == 2

MaxStride == 21

ShapeInit ==
    /\ sh_N \in 1..MaxShapeAtoms
    /\ sh_MN \in 1..MaxStride
    /\ sh_NN \in [0..(sh_N - 1) -> {0, 1, sh_MN - 1, sh_MN}]
    /\ sh_len = AllocLen(sh_N, sh_MN)
    /\ sh_access = <<>>

\* g_b[i1 * number_of_particles + n1] and the like, in either kernel
Access ==
    /\ \E n1 \in 0..(sh_N - 1) :
        \E i1 \in 0..(sh_NN[n1] - 1) :
            sh_access' = <<n1, i1, SlotIndex(i1, sh_N, n1)>>
    /\ UNCHANGED <<sh_N, sh_MN, sh_NN, sh_len>>
    /\ UNCHANGED notShape

ShapeParked ==
    /\ sh_N = 1
    /\ sh_MN = 1
    /\ sh_NN = <<>>
    /\ sh_len = 0
    /\ sh_access = <<>>

----------------------------------------------------------------------------
(* The PLUMED coupling.  The doubles of the virial are exact fractions     *)
(* with the IEEE special values: x / 0 is an infinity or, for 0 / 0, NaN.  *)

MaxPlumedAtoms == 2

MaxInterval == 2

MaxStepInput == 3

MaxCycles == 2

MaxProcessCalls == 2

RECURSIVE GCD(_, _)
GCD(x, y) == IF y = 0 THEN x ELSE GCD(y, x % y)

Fin(n, d) ==
    LET g == GCD(Abs(n), d)
    IN  [k |-> "fin", n |-> n \div g, d |-> d \div g]

RNaN == [k |-> "nan", n |-> 0, d |-> 1]

RInf(sign) == [k |-> "inf", n |-> sign, d |-> 1]

RZero == Fin(0, 1)

Sign(n) == IF n < 0 THEN -1 ELSE 1

RNeg(x) == IF x.k = "nan" THEN x ELSE [x EXCEPT !.n = -x.n]

RAdd(x, y) ==
    CASE x.k = "nan" \/ y.k = "nan" -> RNaN
      [] x.k = "inf" /\ y.k = "inf" -> IF x.n = y.n THEN x ELSE RNaN
      [] x.k = "inf" -> x
      [] y.k = "inf" -> y
      [] OTHER -> Fin(x.n * y.d + y.n * x.d, x.d * y.d)

RSub(x, y) == RAdd(x, RNeg(y))

RMul(x, y) ==
    CASE x.k = "nan" \/ y.k = "nan" -> RNaN
      [] x.k = "inf" \/ y.k = "inf" ->
            IF x.n = 0 \/ y.n = 0 THEN RNaN ELSE RInf(Sign(x.n) * Sign(y.n))
      [] OTHER -> Fin(x.n * y.n, x.d * y.d)

RDiv(x, y) ==
    CASE x.k = "nan" \/ y.k = "nan" -> RNaN
      [] x.k = "inf" /\ y.k = "inf" -> RNaN
      [] x.k = "inf" -> RInf(x.n * Sign(y.n))
      [] y.k = "inf" -> RZero
      [] y.n = 0 -> IF x.n = 0 THEN RNaN ELSE RInf(Sign(x.n))
      [] OTHER -> Fin(x.n * y.d * Sign(y.n), x.d * Abs(y.n))

\* a % b of C for b > 0: the remainder has the sign of a
CRem(x, y) == IF x >= 0 THEN x % y ELSE -((-x) % y)

\* is_valid_int (read_file.cuh): whether the token is an integer, and the
\* integer.  A token is [int |-> BOOLEAN, v |-> Int].
is_valid_int(token) == token.int

Tokens(lo, hi) == {[int |-> TRUE, v |-> x] : x \in lo..hi} \cup {[int |-> FALSE, v |-> 0]}

\* PRINT_INPUT_ERROR (error.cuh) prints and ends the process
PRINT_INPUT_ERROR == "error"

\* PLUMED::parse: TRUE when none of its PRINT_INPUT_ERROR is reached
ParseAccepts(installed, num_param, p2, p3) ==
    /\ installed
    /\ ~(num_param # 4)
    /\ is_valid_int(p2)
    /\ ~(p2.v <= 0)
    /\ is_valid_int(p3)

Zeros(len) == [q \in 0..(len - 1) |-> 0]

RZeros(len) == [q \in 0..(len - 1) |-> RZero]

\* the virial the run starts from: all zero; positive sums; entries that
\* cancel to a zero sum over two atoms
VirialMenu(n) ==
    {[q \in 0..(6 * n - 1) |-> RZero],
     [q \in 0..(6 * n - 1) |-> Fin((q \div n) + 1 + (q % n), 1)],
     [q \in 0..(6 * n - 1) |->
        Fin((IF (q % n) % 2 = 0 THEN 1 ELSE -1) * ((q \div n) + 1), 1)]}

\* what performCalc may leave in the force arrays and in the virial it was
\* handed: nothing, or a bias that differs from entry to entry
BiasMenu(n) ==
    {Zeros(3 * n), [q \in 0..(3 * n - 1) |-> q + 1]}

PlumedVirialMenu ==
    {RZeros(9), [q \in 0..8 |-> Fin(q + 1, 1)]}

\* box.cpu_h, handed to setBox transposed
BoxH == [q \in 0..8 |-> q + 1]

PlumedInit ==
    /\ \E installed \in BOOLEAN, num_param \in 3..5,
          p2 \in Tokens(-1, MaxInterval), p3 \in Tokens(1, 1) :
        /\ use_plumed = 1
        /\ IF ParseAccepts(installed, num_param, p2, p3)
           THEN /\ p_ctor = "ok"
                /\ interval = p2.v
                /\ restart = p3.v
           ELSE /\ p_ctor = PRINT_INPUT_ERROR
                /\ interval = IF installed /\ num_param = 4 /\ is_valid_int(p2)
                              THEN p2.v ELSE 0
                /\ restart = 0
    /\ step = 0
    /\ n_atom = 0
    /\ plumed_main = 0
    /\ handles = <<>>
    /\ number_of_atoms \in 1..MaxPlumedAtoms
    /\ force_per_atom = Zeros(3 * number_of_atoms)
    /\ position_per_atom = [q \in 0..(3 * number_of_atoms - 1) |-> q]
    /\ virial_per_atom \in VirialMenu(number_of_atoms)
    /\ cpu_f_vector = <<>>
    /\ cpu_q_vector = <<>>
    /\ cpu_b_vector = <<>>
    /\ cpu_v_vector = <<>>
    /\ cpu_v_factor = <<>>
    /\ cpu_m_vector = <<>>
    /\ run = "idle"
    /\ cycles = 0
    /\ nproc = 0
    /\ last = <<0, FALSE>>
    /\ misuse = {}

\* plumed_create
NewHandle == [state |-> "live", finalized |-> 0, step |-> 0, calcs |-> 0]

\* PLUMED::preprocess, with the call of init at its end
Preprocess ==
    /\ p_ctor = "ok"
    /\ run = "idle"
    /\ cycles < MaxCycles
    /\ n_atom' = number_of_atoms
    /\ cpu_b_vector' = Zeros(9)
    /\ cpu_v_vector' = RZeros(9)
    /\ cpu_v_factor' = RZeros(9)
    /\ cpu_m_vector' = [q \in 0..(3 * number_of_atoms - 1) |->
                            IF q < number_of_atoms THEN 1 ELSE 0]
    /\ cpu_f_vector' = Zeros(3 * number_of_atoms)
    /\ cpu_q_vector' = Zeros(3 * number_of_atoms)
    /\ step' = 0
    /\ handles' = Append(handles, NewHandle)
    /\ plumed_main' = Len(handles) + 1
    /\ run' = "running"
    /\ cycles' = cycles + 1
    /\ UNCHANGED <<p_ctor, interval, restart, use_plumed, atomVars, nproc,
                   last, misuse>>
    /\ UNCHANGED notPlumed

NeverSkips(step_input, iv) == FALSE

\* if (step_input % interval != 0) { return; }
Skips(step_input, iv) == CRem(step_input, iv) # 0

\* gpu_sum<<<6, 1024>>>: block c sums g_data[n + c * N] over n < N
RECURSIVE gpu_sum_block(_, _, _, _)
gpu_sum_block(N, g_data, c, n) ==
    IF n = N THEN RZero
    ELSE RAdd(gpu_sum_block(N, g_data, c, n + 1), g_data[n + c * N])

gpu_sum(N, g_data) == [c \in 0..5 |-> gpu_sum_block(N, g_data, c, 0)]

\* cpu_v_factor[0..8] from tmp and cpu_v_vector
VirialFactors(tmp, v) ==
    LET f(t, q) == RDiv(RSub(tmp[t], v[q]), tmp[t])
    IN  (0 :> f(0, 0)) @@ (1 :> f(3, 1)) @@ (2 :> f(4, 2)) @@ (3 :> f(3, 3))
        @@ (4 :> f(1, 4)) @@ (5 :> f(5, 5)) @@ (6 :> f(4, 6)) @@ (7 :> f(5, 7))
        @@ (8 :> f(2, 8))

\* gpu_scale_virial: the launch passes the six blocks as g_sxx .. g_syz
gpu_scale_virial(N, factors, g_virial) ==
    LET of_block == (0 :> 0) @@ (1 :> 4) @@ (2 :> 8) @@ (3 :> 1) @@ (4 :> 2) @@ (5 :> 5)
    IN  [q \in 0..(6 * N - 1) |-> RMul(g_virial[q], factors[of_block[q \div N]])]

\* the plugin calls of process on plumed_main, from setStep to setStopFlag
UseHandle(h, new_step) ==
    [h EXCEPT !.step = new_step, !.calcs = @ + 1]

\* PLUMED::process
Process ==
    /\ p_ctor = "ok"
    /\ run = "running"
    /\ nproc < MaxProcessCalls
    /\ nproc' = nproc + 1
    /\ \E step_input \in (-MaxStepInput)..MaxStepInput :
        IF Skips(step_input, interval)
        THEN /\ last' = <<step_input, FALSE>>
             /\ UNCHANGED <<step, handles, atomVars, hostVars, misuse>>
        ELSE \E bias \in BiasMenu(n_atom), pv \in PlumedVirialMenu :
             LET tmp == gpu_sum(n_atom, virial_per_atom)
                 f == [q \in 0..(3 * n_atom - 1) |-> force_per_atom[q] + bias[q]]
                 factors == VirialFactors(tmp, pv)
                 live == plumed_main \in DOMAIN handles
                            /\ handles[plumed_main].state = "live"
             IN  /\ last' = <<step_input, TRUE>>
                 /\ step' = step + interval
                 /\ cpu_q_vector' = position_per_atom
                 /\ cpu_b_vector' =
                        [q \in 0..8 |-> BoxH[3 * (q % 3) + (q \div 3)]]
                 /\ cpu_v_vector' = pv
                 /\ cpu_f_vector' = f
                 /\ handles' =
                        IF plumed_main \in DOMAIN handles
                        THEN [handles EXCEPT ![plumed_main] = UseHandle(@, step + interval)]
                        ELSE handles
                 /\ misuse' = IF live THEN misuse ELSE misuse \cup {"process"}
                 /\ force_per_atom' = f
                 /\ cpu_v_factor' = factors
                 /\ virial_per_atom' = gpu_scale_virial(n_atom, factors, virial_per_atom)
                 /\ UNCHANGED <<number_of_atoms, position_per_atom, cpu_m_vector>>
    /\ UNCHANGED <<p_ctor, interval, restart, use_plumed, n_atom, plumed_main,
                   run, cycles>>
    /\ UNCHANGED notPlumed

\* plumed_finalize
Finalize(h) == [h EXCEPT !.state = "finalized", !.finalized = @ + 1]

\* PLUMED::postprocess
Postprocess ==
    /\ p_ctor = "ok"
    /\ run = "running"
    /\ IF use_plumed = 1
       THEN /\ use_plumed' = 0
            /\ handles' = [handles EXCEPT ![plumed_main] = Finalize(@)]
            /\ misuse' = IF handles[plumed_main].state = "live"
                         THEN misuse ELSE misuse \cup {"finalize"}
       ELSE UNCHANGED <<use_plumed, handles, misuse>>
    /\ run' = "idle"
    /\ UNCHANGED <<p_ctor, interval, restart, step, n_atom, plumed_main,
                   atomVars, hostVars, cycles, nproc, last>>
    /\ UNCHANGED notPlumed

PlumedParked ==
    /\ p_ctor = "ok"
    /\ interval = 1
    /\ restart = 0
    /\ use_plumed = 0
    /\ step = 0
    /\ n_atom = 0
    /\ plumed_main = 0
    /\ handles = <<>>
    /\ number_of_atoms = 0
    /\ force_per_atom = <<>>
    /\ position_per_atom = <<>>
    /\ virial_per_atom = <<>>
    /\ cpu_f_vector = <<>>
    /\ cpu_q_vector = <<>>
    /\ cpu_b_vector = <<>>
    /\ cpu_v_vector = <<>>
    /\ cpu_v_factor = <<>>
    /\ cpu_m_vector = <<>>
    /\ run = "idle"
    /\ cycles = 0
    /\ nproc = 0
    /\ last = <<0, FALSE>>
    /\ misuse = {}

----------------------------------------------------------------------------
(* The specifications.                                                     *)

Init == KernelInit /\ CtorParked /\ ShapeParked /\ PlumedParked

Next ==
    \/ Compute
    \/ \E n1 \in Atoms : Step1(n1)
    \/ \E n1 \in Atoms : Step2(n1)
    \/ \E n1 \in Atoms : Step2Save(n1)
    \/ Reduce

Spec == Init /\ [][Next]_vars

InitCtor == CtorInit /\ KernelParked /\ ShapeParked /\ PlumedParked

NextCtor == ReadLine \/ Lookup

SpecCtor == InitCtor /\ [][NextCtor]_vars

InitShape == ShapeInit /\ CtorParked /\ KernelParked /\ PlumedParked

NextShape == Access

SpecShape == InitShape /\ [][NextShape]_vars

InitPlumed == PlumedInit /\ CtorParked /\ KernelParked /\ ShapeParked

NextPlumed == Preprocess \/ Process \/ Postprocess

SpecPlumed == InitPlumed /\ [][NextPlumed]_vars

----------------------------------------------------------------------------
(* The claims.                                                             *)

\* a line that breaks one of the conditions a parameter line has to meet
LineViolates(l) ==
    \/ l.count # 9
    \/ ~Gt(l.d0, Num(0))
    \/ ~Gt(l.a, Num(0))
    \/ ~Gt(l.r0, Num(0))
    \/ ~Ge(l.beta, Num(0))
    \/ ~Ge(l.n, Num(0))
    \/ ~(Ge(l.h, Num(-1)) /\ Le(l.h, Num(1)))
    \/ ~Ge(l.r1, Num(0))
    \/ ~Gt(l.r2, l.r1)

\* C1: every parameter line that violates one of: nine fields read, d0 > 0,
\* a > 0, r0 > 0, beta >= 0, n >= 0, -1 <= h <= 1, r1 >= 0, r2 > r1 makes
\* the construction fail with the configuration error.
C1_ViolatingLineRejected == LineViolates(lastLine) => ctor = "error"

\* C2 as stated: every stored entry has r2 > r1 > 0, n >= 0, h in [-1, 1].
C2_InnerCutoffPositive ==
    ctor = "constructed" =>
        \A i \in DOMAIN para :
            /\ Gt(para[i].r2, para[i].r1)
            /\ Gt(para[i].r1, Num(0))
            /\ Ge(para[i].n, Num(0))
            /\ Ge(para[i].h, Num(-1)) /\ Le(para[i].h, Num(1))

\* C2 as amended: no stored entry has r2 <= r1, r2 <= 0, r1 < 0, n < 0,
\* h < -1 or h > 1; an inner cutoff of 0 is stored.
C2_StoredEntriesPassTheChecks ==
    \A i \in DOMAIN para :
        /\ ~Le(para[i].r2, para[i].r1)
        /\ ~Le(para[i].r2, Num(0))
        /\ ~Lt(para[i].r1, Num(0))
        /\ ~Lt(para[i].n, Num(0))
        /\ ~Lt(para[i].h, Num(-1)) /\ ~Gt(para[i].h, Num(1))

C2_Witness ==
    /\ ctor = "constructed"
    /\ num_types = 2
    /\ \E i \in DOMAIN para : para[i].r1 = Num(0) /\ para[i].r2 = Num(1)

\* the slots of atom n1 and what they hold
SlotsOf(n1) == {i1 \in 0..(MaxNeighbors - 1) : i1 < g_neighbor_number[n1]}

NeighborAt(n1, i1) == g_neighbor_list[n1 + NumAtoms * i1]

\* the screening sum of slot i1 of atom n1: over the slots that hold
\* another atom than the bond's
Screening(n1, i1) ==
    ZetaSum(n1, i1,
        SelectSeq([k \in 1..g_neighbor_number[n1] |-> k - 1],
                  LAMBDA i2 : NeighborAt(n1, i2) # NeighborAt(n1, i1)))

\* C3: in Pass 1 a slot whose screening sum is below 1e-16 (a quarter on
\* this grid), in particular the slot of a single neighbor and a slot all of
\* whose fellow slots hold the same atom, stores b = 1 and b' = 0, and the
\* quotient by zeta is stored only for a zeta that is not below 1e-16.
C3_SingularityGuard ==
    \A n1 \in Range : \A i1 \in SlotsOf(n1) :
        LET idx == i1 * NumAtoms + n1
        IN  stamp_b[idx] > 0 =>
                /\ Screening(n1, i1) < 1 =>
                        g_b[idx] = Lit(1) /\ g_bp[idx] = Lit(0)
                /\ (\A i2 \in SlotsOf(n1) : NeighborAt(n1, i2) = NeighborAt(n1, i1)) =>
                        g_b[idx] = Lit(1) /\ g_bp[idx] = Lit(0)
                /\ g_bp[idx][1] = "bp12" => g_bp[idx][2] >= 1
                /\ g_b[idx][1] = "b12" => g_b[idx][2] >= 1

C3_Witness ==
    /\ \E n1 \in Range :
        /\ g_neighbor_number[n1] = 1
        /\ stamp_b[n1] > 0
        /\ g_b[n1] = Lit(1) /\ g_bp[n1] = Lit(0)
    /\ \E n1 \in Range : \E i1 \in SlotsOf(n1) :
        /\ stamp_b[i1 * NumAtoms + n1] > 0
        /\ Len(zeta_slots[i1 * NumAtoms + n1]) > 0
        /\ g_b[i1 * NumAtoms + n1] = Lit(1)

\* C4: within a compute call every b / b' slot Pass 2 reads was written by
\* Pass 1 in the same call, and the reducer starts only when Pass 2 has
\* written every partial force of the atom range in that call.
C4_PassesOrdered ==
    /\ stale = {}
    /\ (phase = "idle" /\ call > 0) =>
            \A n1 \in Range : \A i1 \in SlotsOf(n1) :
                /\ stamp_b[i1 * NumAtoms + n1] = call
                /\ stamp_f[i1 * NumAtoms + n1] = call

C4_Witness ==
    /\ phase = "idle"
    /\ call = 2
    /\ \E idx \in Slots :
        /\ stamp_f[idx] = 2
        /\ g_f12[idx][1] = "f12"
        /\ Len(g_f12[idx][3]) > 0

\* the cache slots and the energy entry of atom n
Owned(n) == {idx \in Slots : idx % NumAtoms = n}

C5_Step ==
    /\ UNCHANGED inputVars
    /\ \A n \in Atoms :
        (pc1'[n] = pc1[n] /\ pc2'[n] = pc2[n]) =>
            /\ g_potential'[n] = g_potential[n]
            /\ \A idx \in Owned(n) :
                /\ g_b'[idx] = g_b[idx]
                /\ g_bp'[idx] = g_bp[idx]
                /\ g_f12'[idx] = g_f12[idx]

C5_ReadsOwn == \A r \in reads : r[2] \in Owned(r[1])

\* C5: a step of the thread of atom n1, in either pass, changes only cache
\* slots i1 * N + n1 and potential[n1], Pass 2 reads b and b' only at slots
\* of n1, and positions, types, the neighbor table and the parameter table
\* never change.
C5_TasksOwnTheirSlots == [][C5_Step]_vars /\ []C5_ReadsOwn

C5_Witness ==
    /\ phase = "run"
    /\ \E n \in Range, m \in Range :
        /\ n # m
        /\ pc2[n] > 0 /\ pc2[n] < g_neighbor_number[n]
        /\ pc2[m] > 0 /\ pc2[m] < g_neighbor_number[m]
        /\ Cardinality({r \in reads : r[1] = n}) > 1
        /\ Cardinality({r \in reads : r[1] = m}) > 1

\* C6: with every neighbor count at most the stride MN, every index
\* i1 * N + n1 the kernels use lies inside the arrays the constructor
\* allocated.
C6_IndexInsideArrays ==
    sh_access # <<>> => (sh_access[3] >= 0 /\ sh_access[3] < sh_len)

TypePairs == (0..(num_types - 1)) \X (0..(num_types - 1))

\* C7 as stated: one line and one entry per ordered pair of types, distinct
\* pairs at distinct indices.
C7_OneEntryPerOrderedPair ==
    ctor = "constructed" =>
        /\ entry = num_types * num_types
        /\ \A p \in TypePairs, q \in TypePairs :
            p # q => TypeIndex(p[1], p[2], num_types) # TypeIndex(q[1], q[2], num_types)

\* C7 as amended: the constructor reads 2 * num_types - 1 lines, one per
\* value of type_i + type_j; every index the kernels form from two types
\* is an entry the constructor initialised; (i, j) and (j, i) share theirs.
C7_OneEntryPerTypeSum ==
    ctor = "constructed" =>
        /\ entry = 2 * num_types - 1
        /\ DOMAIN para = 0..(2 * num_types - 2)
        /\ \A p \in TypePairs :
            /\ TypeIndex(p[1], p[2], num_types) = p[1] + p[2]
            /\ TypeIndex(p[1], p[2], num_types) \in DOMAIN para
        /\ look # <<>> => look[3] \in DOMAIN para

C7_Witness ==
    /\ ctor = "constructed"
    /\ num_types = 2
    /\ look = <<1, 0, 1>>
    /\ para[1] # para[0]

SeqSet(q) == {q[k] : k \in DOMAIN q}

\* the slots the three-body terms of a stored partial force were built from
ForceSlots(idx) == [k \in DOMAIN g_f12[idx][3] |-> g_f12[idx][3][k][1]]

BothPassesRan(idx) == call > 0 /\ stamp_b[idx] = call /\ stamp_f[idx] = call

\* C9 as stated: both passes sum exactly the slots other than the bond's
\* own slot.
C9_AllOtherSlots ==
    \A n1 \in Range : \A i1 \in SlotsOf(n1) :
        LET idx == i1 * NumAtoms + n1
        IN  BothPassesRan(idx) =>
                /\ SeqSet(zeta_slots[idx]) = SlotsOf(n1) \ {i1}
                /\ SeqSet(ForceSlots(idx)) = SlotsOf(n1) \ {i1}

\* C9 as amended: both passes sum the same slots, each once: exactly the
\* slots that hold another atom than the bond's neighbor; every slot that
\* holds the neighbor's index is skipped, the bond's own and any other.
C9_SlotsOfOtherAtoms ==
    \A n1 \in Range : \A i1 \in SlotsOf(n1) :
        LET idx == i1 * NumAtoms + n1
            others == {i2 \in SlotsOf(n1) : NeighborAt(n1, i2) # NeighborAt(n1, i1)}
        IN  BothPassesRan(idx) =>
                /\ zeta_slots[idx] = ForceSlots(idx)
                /\ SeqSet(zeta_slots[idx]) = others
                /\ Len(zeta_slots[idx]) = Cardinality(others)

C9_Witness ==
    \E n1 \in Range : \E i1 \in SlotsOf(n1) :
        /\ BothPassesRan(i1 * NumAtoms + n1)
        /\ \E i2 \in SlotsOf(n1) : i2 # i1 /\ NeighborAt(n1, i2) = NeighborAt(n1, i1)

----------------------------------------------------------------------------
(* C8: a process call couples to the plugin exactly when step_input is a   *)
(* multiple of interval: then the step advances by interval, the plugin    *)
(* runs one calculation at that step, the positions are copied out and     *)
(* the forces it returns are written back; on every other step the call    *)
(* leaves the forces, the virial, the step and the plugin alone.  An       *)
(* accepted interval is an integer >= 1.                                   *)

IsMultiple(x, iv) == \E q \in (-MaxStepInput)..MaxStepInput : x = q * iv

ProcessCalled == nproc' = nproc + 1

Coupled ==
    /\ last'[2]
    /\ step' = step + interval
    /\ handles'[plumed_main].calcs = handles[plumed_main].calcs + 1
    /\ handles'[plumed_main].step = step'
    /\ cpu_q_vector' = position_per_atom
    /\ force_per_atom' = cpu_f_vector'
    /\ cpu_v_factor' = VirialFactors(gpu_sum(n_atom, virial_per_atom), cpu_v_vector')

LeftAlone ==
    /\ ~last'[2]
    /\ UNCHANGED <<step, handles, plumed_main, atomVars, hostVars>>

C8_Step ==
    ProcessCalled =>
        IF IsMultiple(last'[1], interval) THEN Coupled ELSE LeftAlone

C8_IntervalAccepted == p_ctor = "ok" => interval \in 1..MaxInterval

C8_CouplingCadence == [][C8_Step]_vars /\ []C8_IntervalAccepted

C8_Witness ==
    /\ interval = 2
    /\ nproc = 2
    /\ last = <<-2, TRUE>>
    /\ step = 2
    /\ handles[plumed_main].calcs = 1
    /\ force_per_atom # Zeros(3 * n_atom)

----------------------------------------------------------------------------
(* C10: whenever the driver is between runs, every plugin object that a    *)
(* preprocess created has been finalized exactly once, over any number of  *)
(* preprocess/postprocess cycles; no object is finalized twice and none is *)
(* used when it is not live.                                               *)

C10_HandleLifecycle ==
    /\ misuse = {}
    /\ \A h \in DOMAIN handles : handles[h].finalized <= 1
    /\ run = "idle" => \A h \in DOMAIN handles : handles[h].finalized = 1

----------------------------------------------------------------------------
(* C11: every stored entry has well-defined derived coefficients: the      *)
(* divisors s - 1 (of d0 / (s - 1) and s * d0 / (s - 1)), r2 - r1 (of      *)
(* PI / (r2 - r1)) and n (of -0.5 / n) are not zero, and the arguments     *)
(* 2 * s and 2 / s of the square roots are positive, so that no line with  *)
(* s = 1, s <= 0 or n = 0 is stored.                                       *)

DSub(x, y) == IF x.nan \/ y.nan THEN NaN ELSE Num(x.v - y.v)

IsZero(x) == ~x.nan /\ x.v = 0

\* the operands the entry was built from
EntryS(e) == e.a[2]

C11_CoefficientsWellDefined ==
    ctor = "constructed" =>
        \A i \in DOMAIN para :
            /\ ~IsZero(DSub(EntryS(para[i]), Num(1)))
            /\ ~IsZero(DSub(para[i].pi_factor[1], para[i].pi_factor[2]))
            /\ ~IsZero(para[i].minus_half_over_n)
            /\ ~Le(EntryS(para[i]), Num(0))

----------------------------------------------------------------------------
(* C12: on a performed coupling call every per-atom entry of each of the   *)
(* six virial components xx, yy, zz, xy, xz, yz is multiplied by           *)
(* (S - P) / S, with S the sum of that component over the atoms before the *)
(* call and P the entry PLUMED wrote for that component in its 3 x 3       *)
(* virial; and a component to which PLUMED contributes P = 0 is left       *)
(* unchanged, whatever S is.                                               *)

\* the place of xx, yy, zz, xy, xz, yz in the row-major 3 x 3 virial
PlumedIndex == <<0, 4, 8, 1, 2, 5>>

RECURSIVE ComponentSum(_, _)
ComponentSum(c, i) ==
    IF i = n_atom THEN RZero
    ELSE RAdd(virial_per_atom[c * n_atom + i], ComponentSum(c, i + 1))

C12_Step ==
    (ProcessCalled /\ last'[2]) =>
        \A c \in 0..5 :
            LET S == ComponentSum(c, 0)
                P == cpu_v_vector'[PlumedIndex[c + 1]]
            IN  \A i \in 0..(n_atom - 1) :
                    /\ virial_per_atom'[c * n_atom + i] =
                            RMul(virial_per_atom[c * n_atom + i], RDiv(RSub(S, P), S))
                    /\ P = RZero =>
                            virial_per_atom'[c * n_atom + i] = virial_per_atom[c * n_atom + i]

C12_VirialScaling == [][C12_Step]_vars

====
